---- MODULE Spec2Model ----
(***************************************************************************)
(* Encrypted message log of the Telegram bot: CryptoService (AES-256-CBC   *)
(* framing "<ivHex>:<cipherHex>"), MessageLogService (read-modify-write of *)
(* one encrypted JSON file) and the TelegramService message handler that   *)
(* drives them.                                                            *)
(*                                                                         *)
(* Strings are modelled by their structure: a blob is the sequence of its  *)
(* colon-separated segments, a segment is a run of characters of which a   *)
(* prefix decodes as hex, a plaintext is either JSON text or raw text.     *)
(* AES itself is symbolic: a ciphertext names the key, IV and plaintext it *)
(* was made from, and has the byte length CBC with PKCS padding gives it.  *)
(***************************************************************************)
EXTENDS Integers, Sequences, FiniteSets, TLC

(* ------------------------------ bounds -------------------------------- *)

\* number of handler invocations (incoming messages) in a run
NumProcs == 2

\* number of distinct values crypto.randomBytes can return
NumIVs == 2

\* number of failures of the environment (file system, random source,
\* Telegram API, Ollama) in a run
MaxFaults == 1

(* ------------------------- program constants -------------------------- *)

IV_LENGTH == 16

KEY_LENGTH == 32

\* block size (and IV size) of 'aes-256-cbc'
AES_BLOCK == 16

\* key size of 'aes-256-cbc'
AES_KEY == 32

\* characters of Date.prototype.toISOString(): YYYY-MM-DDTHH:mm:ss.sssZ
ISO_CHARS == 24

DEFAULT_KEY == "default-encryption-key-32-char-long!"

NO_TEXT == "No text content"

(* ------------------------------ errors -------------------------------- *)

\* value of the 'code' property of an Error object that has none
NoCode == "<no code property>"

MkError(name, code) == [name |-> name, code |-> code]

FormatError == MkError("Invalid encrypted text format", NoCode)

InvalidIV == MkError("Invalid initialization vector", "ERR_CRYPTO_INVALID_IV")

BadDecrypt == MkError("bad decrypt", "ERR_OSSL_BAD_DECRYPT")

WrongFinalBlock ==
  MkError("wrong final block length", "ERR_OSSL_WRONG_FINAL_BLOCK_LENGTH")

EntropyError == MkError("randomBytes failed", "ERR_CRYPTO_OPERATION_FAILED")

JsonSyntaxError == MkError("SyntaxError", NoCode)

TypeError == MkError("TypeError", NoCode)

ENOENT == MkError("ENOENT", "ENOENT")

EIO == MkError("EIO", "EIO")

NoError == MkError("", NoCode)

(* --------------------------- JSON and text ---------------------------- *)

\* a JSON value: an array of stored records, null, or an object
JArray(items) == [t |-> "array", items |-> items]

JNull == [t |-> "null", items |-> <<>>]

JObject == [t |-> "object", items |-> <<>>]

\* a JavaScript string: JSON text of a value, or raw characters
JsonText(v) == [kind |-> "json", val |-> v, chars |-> ""]

RawText(s) == [kind |-> "raw", val |-> JNull, chars |-> s]

\* what Buffer.toString('utf8') gives for bytes that are no text of ours
GarbageText == RawText("\\uFFFD\\uFFFD")

RECURSIVE SumLen(_)
SumLen(items) ==
  IF items = <<>> THEN 0
  ELSE 4 + 13 + ISO_CHARS + 3 + 16 + Len(Head(items).message) + 2 + 3
       + SumLen(Tail(items))

\* length of JSON.stringify(v, null, 2)
JsonLen(v) ==
  CASE v.t = "null" -> 4
    [] v.t = "object" -> 2
    [] OTHER -> IF v.items = <<>> THEN 2
                ELSE 2 + SumLen(v.items) + 2 * (Len(v.items) - 1) + 2

\* number of bytes of the UTF-8 encoding (the texts here are ASCII)
Utf8Len(s) == IF s.kind = "json" THEN JsonLen(s.val) ELSE Len(s.chars)

Ok(v) == [ok |-> TRUE, val |-> v, err |-> NoError]

(* ------------------------------- dates -------------------------------- *)

\* a Date: its time value, kept as whole seconds and milliseconds
MkDate(secs, millis) == [secs |-> secs, millis |-> millis]

\* Date.prototype.toISOString(): the civil UTC fields of the time value
toISOString(d) ==
  LET days == d.secs \div 86400
      rem  == d.secs % 86400
      z    == days + 719468
      era  == z \div 146097
      doe  == z - era * 146097
      yoe  == (doe - doe \div 1460 + doe \div 36524 - doe \div 146096) \div 365
      doy  == doe - (365 * yoe + yoe \div 4 - yoe \div 100)
      mp   == (5 * doy + 2) \div 153
      day  == doy - (153 * mp + 2) \div 5 + 1
      mon  == IF mp < 10 THEN mp + 3 ELSE mp - 9
      yr   == yoe + era * 400 + (IF mon <= 2 THEN 1 ELSE 0)
  IN [Y |-> yr, Mo |-> mon, D |-> day,
      h |-> rem \div 3600, mi |-> (rem % 3600) \div 60, s |-> rem % 60,
      ms |-> d.millis]

\* new Date(isoString): the time value of the civil UTC fields
DateParse(iso) ==
  LET y    == iso.Y - (IF iso.Mo <= 2 THEN 1 ELSE 0)
      era  == y \div 400
      yoe  == y - era * 400
      mp   == IF iso.Mo > 2 THEN iso.Mo - 3 ELSE iso.Mo + 9
      doy  == (153 * mp + 2) \div 5 + iso.D - 1
      doe  == yoe * 365 + yoe \div 4 - yoe \div 100 + doy
      days == era * 146097 + doe - 719468
  IN MkDate(days * 86400 + iso.h * 3600 + iso.mi * 60 + iso.s, iso.ms)

(* ------------------------ hex, buffers, blobs -------------------------- *)

\* what a run of bytes holds: an IV, a key, an AES-CBC ciphertext, or bytes
\* that are none of ours ('pad': whether they happen to end in valid padding)
IvData(i) ==
  [tag |-> "iv", iv |-> i, key |-> "", pt |-> RawText(""), pad |-> FALSE]

KeyData(pass) ==
  [tag |-> "key", iv |-> 0, key |-> pass, pt |-> RawText(""), pad |-> FALSE]

EncData(pass, i, text) ==
  [tag |-> "enc", iv |-> i, key |-> pass, pt |-> text, pad |-> FALSE]

JunkData(padOk) ==
  [tag |-> "junk", iv |-> 0, key |-> "", pt |-> RawText(""), pad |-> padOk]

\* a Buffer of n bytes
MkBuffer(n, data) == [n |-> n, data |-> data]

\* a colon-free run of 'len' characters whose longest prefix of valid hex
\* pairs has 'pairs' pairs, which decode to 'data'
MkSeg(len, pairs, data) == [len |-> len, pairs |-> pairs, data |-> data]

\* buffer.toString('hex'): two lowercase hex digits per byte
toHex(buf) == MkSeg(2 * buf.n, buf.n, buf.data)

\* Buffer.from(s, 'hex'): decodes pairs up to the first that is not hex
BufferFromHex(seg) == MkBuffer(seg.pairs, seg.data)

\* `${a}:${b}`; a string is kept as the sequence text.split(':') returns
JoinColon(a, b) == <<a, b>>

split(text) == text

EmptySeg == MkSeg(0, 0, JunkData(FALSE))

ThrowText(e) == [ok |-> FALSE, val |-> RawText(""), err |-> e]

ThrowBlob(e) == [ok |-> FALSE, val |-> <<EmptySeg>>, err |-> e]

(* --------------------------- CryptoService ---------------------------- *)

\* crypto.scryptSync(this.encryptionKey, 'salt', KEY_LENGTH)
getKey(encryptionKey) == MkBuffer(KEY_LENGTH, KeyData(encryptionKey))

\* crypto.randomBytes(n), the random source returning its value number i
randomBytes(n, i) == MkBuffer(n, IvData(i))

\* bytes cipher.update(text) + cipher.final() produce: PKCS padding always
\* adds 1..AES_BLOCK bytes
PaddedLen(text) == (Utf8Len(text) \div AES_BLOCK + 1) * AES_BLOCK

\* createCipheriv('aes-256-cbc', key, iv), update(text,'utf8'), final()
Cipher(key, iv, text) ==
  IF key.n # AES_KEY \/ iv.n # AES_BLOCK
    THEN [ok |-> FALSE, val |-> MkBuffer(0, JunkData(FALSE)), err |-> InvalidIV]
    ELSE Ok(MkBuffer(PaddedLen(text), EncData(key.data.key, iv.data.iv, text)))

\* createDecipheriv('aes-256-cbc', key, iv), update(encrypted), final(),
\* toString('utf8')
Decipher(key, iv, encrypted) ==
  LET c == encrypted.data
      whole == c.tag = "enc" /\ encrypted.n = PaddedLen(c.pt)
  IN IF key.n # AES_KEY \/ iv.n # AES_BLOCK THEN ThrowText(InvalidIV)
     ELSE IF encrypted.n = 0 \/ encrypted.n % AES_BLOCK # 0
       THEN ThrowText(WrongFinalBlock)
     ELSE IF whole /\ c.key = key.data.key
       THEN IF iv.data.tag = "iv" /\ c.iv = iv.data.iv THEN Ok(c.pt)
            \* another IV garbles the first block only: the padding of a
            \* longer ciphertext still checks
            ELSE IF encrypted.n > AES_BLOCK THEN Ok(GarbageText)
            ELSE ThrowText(BadDecrypt)
     ELSE IF c.tag = "junk" /\ c.pad THEN Ok(GarbageText)
     ELSE ThrowText(BadDecrypt)

MutEncryptNoPadding(text, encryptionKey, i, rngOk) ==
  LET iv == randomBytes(IV_LENGTH, i)
      c  == MkBuffer((Utf8Len(text) \div AES_BLOCK) * AES_BLOCK,
                     EncData(encryptionKey, i, text))
  IN Ok(JoinColon(toHex(iv), toHex(c)))

MutEncryptFixedIV(text, encryptionKey, i, rngOk) ==
  IF ~rngOk THEN ThrowBlob(EntropyError)
  ELSE LET iv == randomBytes(IV_LENGTH, 1)
           key == getKey(encryptionKey)
           c == Cipher(key, iv, text)
       IN IF ~c.ok THEN ThrowBlob(c.err)
          ELSE Ok(JoinColon(toHex(iv), toHex(c.val)))

\* CryptoService.encrypt; i is what the random source returns, rngOk whether
\* it returns at all
encrypt(text, encryptionKey, i, rngOk) ==
  IF ~rngOk THEN ThrowBlob(EntropyError)
  ELSE LET iv == randomBytes(IV_LENGTH, i)
           key == getKey(encryptionKey)
           c == Cipher(key, iv, text)
       IN IF ~c.ok THEN ThrowBlob(c.err)
          ELSE Ok(JoinColon(toHex(iv), toHex(c.val)))

\* CryptoService.decrypt
decrypt(text, encryptionKey) ==
  LET parts == split(text)
      noIv  == parts[1].len = 0
      noEnc == Len(parts) < 2 \/ parts[2].len = 0
  IN IF noIv \/ noEnc \/ parts[1].len # IV_LENGTH * 2
       THEN ThrowText(FormatError)
       ELSE LET iv == BufferFromHex(parts[1])
                encrypted == BufferFromHex(parts[2])
                key == getKey(encryptionKey)
            IN Decipher(key, iv, encrypted)

(* ------------------------- MessageLogService --------------------------- *)

\* a log record in memory: a Date and a text
MkRecord(date, message) == [date |-> date, message |-> message]

ThrowJson(e) == [ok |-> FALSE, val |-> JNull, err |-> e]

ThrowRecords(e) == [ok |-> FALSE, val |-> <<>>, err |-> e]

\* JSON.parse
JSONparse(text) ==
  IF text.kind = "json" THEN Ok(text.val) ELSE ThrowJson(JsonSyntaxError)

MutStringifyLast(messages) ==
  JsonText(JArray(IF messages = <<>> THEN <<>>
    ELSE <<[date |-> toISOString(messages[Len(messages)].date),
            message |-> messages[Len(messages)].message]>>))

\* JSON.stringify(messages, null, 2): a Date is written by toJSON, which is
\* toISOString
JSONstringify(messages) ==
  JsonText(JArray([i \in 1..Len(messages) |->
    [date |-> toISOString(messages[i].date),
     message |-> messages[i].message]]))

\* the file system: a path that is absent, or a file and its content
AbsentFile == [exists |-> FALSE, content |-> <<EmptySeg>>]

FileOf(blob) == [exists |-> TRUE, content |-> blob]

\* fs.readFile(path, 'utf-8'); ioOk: no error other than a missing file
fsReadFile(f, ioOk) ==
  IF ~f.exists THEN ThrowBlob(ENOENT)
  ELSE IF ~ioOk THEN ThrowBlob(EIO)
  ELSE Ok(f.content)

\* fs.writeFile(path, blob, 'utf-8') opening the path with flag 'w'
fsOpenTruncate(f) == FileOf(<<EmptySeg>>)

\* fs.writeFile(path, blob, 'utf-8') having written the blob
fsWriteFile(f, blob) == FileOf(blob)

\* the try block of readEncryptedFile: decrypt, then JSON.parse
ReadTry(rd, encryptionKey) ==
  IF ~rd.ok THEN ThrowJson(rd.err)
  ELSE LET d == decrypt(rd.val, encryptionKey)
       IN IF ~d.ok THEN ThrowJson(d.err) ELSE JSONparse(d.val)

MutLogsEveryError(error) == TRUE

\* the condition under which the catch block of readEncryptedFile logs
ReadErrorLogged(error) == error.code # NoCode /\ error.code # "ENOENT"

LogEntry(text, error) == [text |-> text, error |-> error.name]

\* what readEncryptedFile writes to the error log, given the outcome rd of
\* fs.readFile
readEncryptedFileLog(rd, encryptionKey) ==
  LET r == ReadTry(rd, encryptionKey)
  IN IF ~r.ok /\ ReadErrorLogged(r.err)
       THEN <<LogEntry("Error reading encrypted file:", r.err)>>
       ELSE <<>>

MutReadRethrow(rd, encryptionKey) ==
  LET r == ReadTry(rd, encryptionKey)
  IN IF r.ok THEN Ok(r.val)
     ELSE IF r.err.code = "ENOENT" THEN Ok(JNull) ELSE ThrowJson(r.err)

\* what readEncryptedFile returns: the parsed value, or null from the catch
\* block, which throws nothing
readEncryptedFile(rd, encryptionKey) ==
  LET r == ReadTry(rd, encryptionKey)
  IN IF r.ok THEN Ok(r.val) ELSE Ok(JNull)

MutReadMessagesNoGuard(rd, encryptionKey) ==
  LET r == readEncryptedFile(rd, encryptionKey)
  IN IF ~r.ok THEN ThrowRecords(r.err)
     ELSE IF r.val.t = "array"
       THEN Ok([i \in 1..Len(r.val.items) |->
                 MkRecord(DateParse(r.val.items[i].date),
                          r.val.items[i].message)])
     ELSE ThrowRecords(TypeError)

\* readMessages: messages?.map(...) || []
readMessages(rd, encryptionKey) ==
  LET r == readEncryptedFile(rd, encryptionKey)
      messages == r.val
  IN IF ~r.ok THEN ThrowRecords(r.err)
     ELSE CASE messages.t = "null" -> Ok(<<>>)
            [] messages.t = "array" ->
                 Ok([i \in 1..Len(messages.items) |->
                      MkRecord(DateParse(messages.items[i].date),
                               messages.items[i].message)])
            [] OTHER -> ThrowRecords(TypeError)

\* an incoming Telegram message: date in epoch seconds, text or no text
MkMsg(date, hasText, text) ==
  [date |-> date, hasText |-> hasText, text |-> text]

\* msg.text || 'No text content'
TextOrDefault(msg) ==
  IF ~msg.hasText \/ msg.text = "" THEN NO_TEXT ELSE msg.text

MutNewRecordNoScale(msg) ==
  MkRecord(MkDate(msg.date \div 1000, msg.date % 1000), TextOrDefault(msg))

\* the record appendMessage pushes: new Date(msg.date * 1000)
NewRecord(msg) == MkRecord(MkDate(msg.date, 0), TextOrDefault(msg))

MutPushFront(messages, record) == <<record>> \o messages

\* messages.push(record)
push(messages, record) == Append(messages, record)

\* the try block of writeEncryptedFile up to the call of fs.writeFile
WriteTry(data, encryptionKey, i, rngOk) ==
  encrypt(JSONstringify(data), encryptionKey, i, rngOk)

\* the catch block of writeEncryptedFile: logs and rethrows
writeEncryptedFileCatch(error) ==
  [threw |-> TRUE,
   log |-> <<LogEntry("Error writing encrypted file:", error)>>]

\* the catch block of appendMessage: logs and returns
appendMessageCatch(error) ==
  [threw |-> FALSE,
   log |-> <<LogEntry("Error saving message to file:", error)>>]

\* the log entries of a failure inside writeEncryptedFile as it passes
\* through both catch blocks, and whether appendMessage throws it on
WriteFailure(error) ==
  LET inner == writeEncryptedFileCatch(error)
      outer == IF inner.threw THEN appendMessageCatch(error)
               ELSE [threw |-> FALSE, log |-> <<>>]
  IN [threw |-> outer.threw, log |-> inner.log \o outer.log]

(* -------------------------- TelegramService ---------------------------- *)

SUMMARIZE == "summarize captain's log"

\* String.prototype.toLowerCase, on the texts of the model
toLowerCase(t) ==
  CASE t = "Summarize Captain's Log" -> "summarize captain's log"
    [] t = "Please SUMMARIZE captain's log!" -> "please summarize captain's log!"
    [] OTHER -> t

\* String.prototype.includes, on the lower-cased texts of the model
includes(t, sub) ==
  \/ t = sub
  \/ sub = SUMMARIZE /\ t = "please summarize captain's log!"

MutCaseSensitive(msg) == msg.hasText /\ includes(msg.text, SUMMARIZE)

\* msg.text?.toLowerCase().includes(`summarize captain's log`)
IsSummarizeRequest(msg) ==
  msg.hasText /\ includes(toLowerCase(msg.text), SUMMARIZE)

\* AiSummaryService.formatLogForAI: one line "[ISO timestamp] text" per
\* record, joined by newlines (kept as the sequence of lines)
formatLogForAI(messages) ==
  [i \in 1..Len(messages) |->
    [iso |-> toISOString(messages[i].date), text |-> messages[i].message]]

\* something the bot was asked to send and the Telegram API accepted
Sent(api, text, body) == [api |-> api, text |-> text, body |-> body]

ACK == "Message received, captain!"

LOG_EMPTY == "Captain's log is empty."

PROCESSING == "Holodeck Dan is on the case, Captain!"

ANALYSIS == "*Psychological Analysis*"

RAW_LOG == "Couldn't generate analysis. Here's the raw log:"

REQUEST_ERROR == "Error processing your request. Please try again later."

(* ------------------------------- state --------------------------------- *)

VARIABLES
  encryptionKey,  \* CryptoService.encryptionKey, set by the constructor
  file,           \* messages.json: absent, or its content
  pc,             \* where each invocation of the message handler stands
  msg,            \* the message each invocation handles
  rd,             \* the outcome of its fs.readFile
  rm,             \* the outcome of its call of readMessages
  messages,       \* its local array 'messages'
  pending,        \* the blob it handed to fs.writeFile
  appendThrew,    \* whether its appendMessage call threw to the handler
  logged,         \* what it wrote to the error log, in order
  sent,           \* what the bot sent for it, in order
  hist,           \* history: what has been called and written so far
  faults,         \* how many calls the environment has failed so far
  cx              \* the CryptoService call under test (CryptoSpec only)

vars == <<encryptionKey, file, pc, msg, rd, rm, messages, pending,
          appendThrew, logged, sent, hist, faults, cx>>

Procs == 1..NumProcs

IVs == 1..NumIVs

Passphrases == {DEFAULT_KEY, "configured passphrase"}

Messages ==
  {MkMsg(1700000000, TRUE, "hello"), MkMsg(951868799, FALSE, ""),
   MkMsg(1700000100, TRUE, "Summarize Captain's Log")}

\* a log written by an earlier run
PriorLog == <<MkRecord(MkDate(1600000000, 0), "earlier entry")>>

StoredBlob(text, pass) == encrypt(text, pass, 1, TRUE).val

IvSeg == toHex(randomBytes(IV_LENGTH, 1))

\* contents of messages.json that no encrypt call of this key produced
ForeignBlobs ==
  {<<EmptySeg>>,                                        \* the empty file
   <<MkSeg(40, 20, JunkData(FALSE))>>,                  \* no colon
   <<MkSeg(30, 15, JunkData(FALSE)), MkSeg(32, 16, JunkData(FALSE))>>,
   <<MkSeg(32, 3, JunkData(FALSE)), MkSeg(32, 16, JunkData(FALSE))>>,
   <<IvSeg, EmptySeg>>,                                 \* "<iv>:"
   <<IvSeg, MkSeg(31, 15, JunkData(FALSE))>>,           \* odd hex length
   <<IvSeg, MkSeg(32, 16, JunkData(FALSE))>>,           \* padding is wrong
   <<IvSeg, MkSeg(64, 32, JunkData(TRUE))>>}            \* decrypts to noise

StoredTexts ==
  {JSONstringify(<<>>), JSONstringify(PriorLog), JsonText(JNull),
   JsonText(JObject), RawText("not json")}

OtherKey(k) == CHOOSE o \in Passphrases : o # k

\* what the path may hold when the process starts, its key being k: no
\* file, a foreign blob, or a text stored under k or under another key
InitialFiles(k) ==
  {AbsentFile} \cup {FileOf(b) : b \in ForeignBlobs}
    \cup {FileOf(StoredBlob(t, k)) : t \in StoredTexts}
    \cup {FileOf(StoredBlob(JSONstringify(PriorLog), OtherKey(k)))}

NoMsg == MkMsg(0, FALSE, "")

MkCx(stage, text, blob, out) ==
  [stage |-> stage, text |-> text, blob |-> blob, out |-> out]

CxIdle == MkCx("idle", RawText(""), ThrowBlob(NoError), ThrowText(NoError))

Init ==
  /\ encryptionKey \in Passphrases
  /\ file \in InitialFiles(encryptionKey)
  /\ pc = [p \in Procs |-> "idle"]
  /\ msg = [p \in Procs |-> NoMsg]
  /\ rd = [p \in Procs |-> ThrowBlob(NoError)]
  /\ rm = [p \in Procs |-> ThrowRecords(NoError)]
  /\ messages = [p \in Procs |-> <<>>]
  /\ pending = [p \in Procs |-> <<EmptySeg>>]
  /\ appendThrew = [p \in Procs |-> FALSE]
  /\ logged = [p \in Procs |-> <<>>]
  /\ sent = [p \in Procs |-> <<>>]
  /\ hist = [file0 |-> file, overlapped |-> FALSE, faulted |-> FALSE,
             appended |-> <<>>, writes |-> <<>>, cut |-> FALSE,
             readAt |-> [p \in Procs |-> 0], iv |-> [p \in Procs |-> 0]]
  /\ faults = 0
  /\ cx = CxIdle

\* the environment lets a call succeed, or (within the bound) fail
MayFail(ok) == ok \/ faults < MaxFaults

\* the environment's decision on one call: it succeeds, or fails and is counted
Outcome(ok) == MayFail(ok) /\ faults' = faults + (IF ok THEN 0 ELSE 1)

\* an appendMessage call is between its call and its return
AppendPcs == {"appendRead", "writeOpen", "writeDone"}

InAppend(p) == pc[p] \in AppendPcs

(* ------------------- the message handler: append path ------------------ *)

\* bot.on('message'): the handler runs up to its first await, which is
\* bot.sendChatAction for a summarize request and fs.readFile (inside
\* appendMessage > readMessages > readEncryptedFile) for any other message
Receive(p, m) ==
  /\ pc[p] = "idle"
  /\ \A q \in Procs : q < p => pc[q] # "idle"   \* invocations are numbered by arrival
  /\ msg' = [msg EXCEPT ![p] = m]
  /\ IF IsSummarizeRequest(m)
       THEN /\ pc' = [pc EXCEPT ![p] = "sendChatAction"]
            /\ hist' = hist
       ELSE /\ pc' = [pc EXCEPT ![p] = "appendRead"]
            /\ hist' = [hist EXCEPT
                 !.appended = Append(@, NewRecord(m)),
                 !.overlapped = @ \/ \E q \in Procs : InAppend(q)]
  /\ UNCHANGED <<encryptionKey, file, rd, rm, messages, pending,
                 appendThrew, logged, sent, faults, cx>>

\* appendMessage from the completion of fs.readFile to the call of
\* fs.writeFile: decrypt, parse, map, push, stringify, encrypt
AppendRead(p, ioOk, i, rngOk) ==
  /\ pc[p] = "appendRead"
  /\ LET r == fsReadFile(file, ioOk)
         got == readMessages(r, encryptionKey)
         rlog == readEncryptedFileLog(r, encryptionKey)
         list == push(got.val, NewRecord(msg[p]))
         w == WriteTry(list, encryptionKey, i, rngOk)
         c == IF ~got.ok THEN appendMessageCatch(got.err)
              ELSE WriteFailure(w.err)
         failed == ~got.ok \/ ~w.ok
         ioFault == IF file.exists /\ ~ioOk THEN 1 ELSE 0
         rngFault == IF got.ok /\ ~rngOk THEN 1 ELSE 0
     IN /\ faults + ioFault + rngFault <= MaxFaults
        /\ faults' = faults + ioFault + rngFault
        /\ rd' = [rd EXCEPT ![p] = r]
        /\ rm' = [rm EXCEPT ![p] = got]
        /\ messages' = [messages EXCEPT ![p] = IF got.ok THEN list ELSE @]
        /\ pending' = [pending EXCEPT ![p] = IF failed THEN @ ELSE w.val]
        /\ logged' = [logged EXCEPT ![p] =
                        @ \o rlog \o (IF failed THEN c.log ELSE <<>>)]
        /\ appendThrew' = [appendThrew EXCEPT ![p] = failed /\ c.threw]
        /\ pc' = [pc EXCEPT ![p] =
                    IF ~failed THEN "writeOpen"
                    ELSE IF c.threw THEN "rejected" ELSE "ack"]
        /\ hist' = [hist EXCEPT
             !.readAt[p] = Len(hist.writes),
             !.faulted = @ \/ ioFault + rngFault > 0,
             !.iv[p] = IF failed THEN 0 ELSE i]  \* what randomBytes returned
  /\ UNCHANGED <<encryptionKey, file, msg, sent, cx>>

\* fs.writeFile opens the path with flag 'w': the file is created or cut to
\* length 0 before any byte is written
WriteOpen(p, ioOk) ==
  /\ pc[p] = "writeOpen"
  /\ Outcome(ioOk)
  /\ LET c == WriteFailure(EIO)
     IN IF ioOk
          THEN /\ file' = fsOpenTruncate(file)
               /\ pc' = [pc EXCEPT ![p] = "writeDone"]
               /\ hist' = [hist EXCEPT !.cut = TRUE]
               /\ UNCHANGED <<logged, appendThrew>>
          ELSE /\ file' = file
               /\ logged' = [logged EXCEPT ![p] = @ \o c.log]
               /\ appendThrew' = [appendThrew EXCEPT ![p] = c.threw]
               /\ pc' = [pc EXCEPT ![p] = IF c.threw THEN "rejected" ELSE "ack"]
               /\ hist' = [hist EXCEPT !.faulted = TRUE]
  /\ UNCHANGED <<encryptionKey, msg, rd, rm, messages, pending, sent, cx>>

\* fs.writeFile writes the blob and resolves, or fails and leaves the file
\* cut; appendMessage returns and the handler calls bot.sendMessage
WriteDone(p, ioOk) ==
  /\ pc[p] = "writeDone"
  /\ Outcome(ioOk)
  /\ LET c == WriteFailure(EIO)
     IN IF ioOk
          THEN /\ file' = fsWriteFile(file, pending[p])
               /\ pc' = [pc EXCEPT ![p] = "ack"]
               /\ hist' = [hist EXCEPT !.writes = Append(@, p), !.cut = FALSE]
               /\ UNCHANGED <<logged, appendThrew>>
          ELSE /\ file' = file
               /\ logged' = [logged EXCEPT ![p] = @ \o c.log]
               /\ appendThrew' = [appendThrew EXCEPT ![p] = c.threw]
               /\ pc' = [pc EXCEPT ![p] = IF c.threw THEN "rejected" ELSE "ack"]
               /\ hist' = [hist EXCEPT !.faulted = TRUE]
  /\ UNCHANGED <<encryptionKey, msg, rd, rm, messages, pending, sent, cx>>

\* await bot.sendMessage(chatId, `Message received, captain!`)
Ack(p, botOk) ==
  /\ pc[p] = "ack"
  /\ Outcome(botOk)
  /\ sent' = [sent EXCEPT ![p] =
                IF botOk THEN Append(@, Sent("sendMessage", ACK, <<>>)) ELSE @]
  /\ pc' = [pc EXCEPT ![p] = IF botOk THEN "done" ELSE "rejected"]
  /\ UNCHANGED <<encryptionKey, file, msg, rd, rm, messages, pending,
                 appendThrew, logged, hist, cx>>

(* ----------------- the message handler: summarize path ----------------- *)

\* the outer catch block of summarizeCaptainLog: logs, then calls
\* bot.sendMessage with the error text
SummarizeCatch(p, error) ==
  /\ logged' = [logged EXCEPT ![p] =
                  @ \o <<LogEntry("Error summarizing log:", error)>>]
  /\ pc' = [pc EXCEPT ![p] = "sendError"]

BotError == MkError("ETELEGRAM", "ETELEGRAM")

AiError == MkError("Failed to generate psychological analysis", NoCode)

\* await this.bot.sendChatAction(chatId, 'typing'), then readMessages up to
\* its fs.readFile
SendChatAction(p, botOk) ==
  /\ pc[p] = "sendChatAction"
  /\ Outcome(botOk)
  /\ IF botOk
       THEN pc' = [pc EXCEPT ![p] = "sumRead"] /\ logged' = logged
       ELSE SummarizeCatch(p, BotError)
  /\ UNCHANGED <<encryptionKey, file, msg, rd, rm, messages, pending,
                 appendThrew, sent, hist, cx>>

MutSumReadCreates(p, ioOk) ==
  /\ pc[p] = "sumRead"
  /\ Outcome(ioOk \/ ~file.exists)
  /\ LET r == fsReadFile(file, ioOk)
         got == readMessages(r, encryptionKey)
         rlog == readEncryptedFileLog(r, encryptionKey)
     IN /\ rd' = [rd EXCEPT ![p] = r]
        /\ rm' = [rm EXCEPT ![p] = got]
        /\ messages' = [messages EXCEPT ![p] = IF got.ok THEN got.val ELSE @]
        /\ hist' = [hist EXCEPT !.readAt[p] = Len(hist.writes)]
        /\ logged' = [logged EXCEPT ![p] = @ \o rlog]
        /\ pc' = [pc EXCEPT ![p] =
             IF Len(got.val) = 0 THEN "sendEmpty" ELSE "sendProcessing"]
  /\ file' = IF file.exists THEN file
             ELSE FileOf(StoredBlob(JSONstringify(<<>>), encryptionKey))
  /\ UNCHANGED <<encryptionKey, msg, pending, appendThrew, sent, cx>>

MutSumReadNoEmptyTest(p, ioOk) ==
  /\ pc[p] = "sumRead"
  /\ Outcome(ioOk \/ ~file.exists)
  /\ LET r == fsReadFile(file, ioOk)
         got == readMessages(r, encryptionKey)
         rlog == readEncryptedFileLog(r, encryptionKey)
     IN /\ rd' = [rd EXCEPT ![p] = r]
        /\ rm' = [rm EXCEPT ![p] = got]
        /\ messages' = [messages EXCEPT ![p] = IF got.ok THEN got.val ELSE @]
        /\ hist' = [hist EXCEPT !.readAt[p] = Len(hist.writes)]
        /\ IF ~got.ok
             THEN /\ logged' = [logged EXCEPT ![p] = @ \o rlog \o
                       <<LogEntry("Error summarizing log:", got.err)>>]
                  /\ pc' = [pc EXCEPT ![p] = "sendError"]
             ELSE /\ logged' = [logged EXCEPT ![p] = @ \o rlog]
                  /\ pc' = [pc EXCEPT ![p] = "sendProcessing"]
  /\ UNCHANGED <<encryptionKey, file, msg, pending, appendThrew, sent, cx>>

\* readMessages from the completion of fs.readFile, the length test, and
\* formatLogForAI; the next await is a bot.sendMessage
SumRead(p, ioOk) ==
  /\ pc[p] = "sumRead"
  /\ Outcome(ioOk \/ ~file.exists)
  /\ LET r == fsReadFile(file, ioOk)
         got == readMessages(r, encryptionKey)
         rlog == readEncryptedFileLog(r, encryptionKey)
     IN /\ rd' = [rd EXCEPT ![p] = r]
        /\ rm' = [rm EXCEPT ![p] = got]
        /\ messages' = [messages EXCEPT ![p] = IF got.ok THEN got.val ELSE @]
        /\ hist' = [hist EXCEPT !.readAt[p] = Len(hist.writes)]
        /\ IF ~got.ok
             THEN /\ logged' = [logged EXCEPT ![p] = @ \o rlog \o
                       <<LogEntry("Error summarizing log:", got.err)>>]
                  /\ pc' = [pc EXCEPT ![p] = "sendError"]
             ELSE /\ logged' = [logged EXCEPT ![p] = @ \o rlog]
                  /\ pc' = [pc EXCEPT ![p] =
                       IF Len(got.val) = 0 THEN "sendEmpty"
                       ELSE "sendProcessing"]
  /\ UNCHANGED <<encryptionKey, file, msg, pending, appendThrew, sent, cx>>

\* await this.bot.sendMessage(chatId, "Captain's log is empty."); return
SendEmpty(p, botOk) ==
  /\ pc[p] = "sendEmpty"
  /\ Outcome(botOk)
  /\ IF botOk
       THEN /\ sent' = [sent EXCEPT ![p] =
                 Append(@, Sent("sendMessage", LOG_EMPTY, <<>>))]
            /\ pc' = [pc EXCEPT ![p] = "done"]
            /\ logged' = logged
       ELSE SummarizeCatch(p, BotError) /\ sent' = sent
  /\ UNCHANGED <<encryptionKey, file, msg, rd, rm, messages, pending,
                 appendThrew, hist, cx>>

\* processingMessage = await this.bot.sendMessage(...), then
\* generatePsychologicalSummary up to its ollama.generate
SendProcessing(p, botOk) ==
  /\ pc[p] = "sendProcessing"
  /\ Outcome(botOk)
  /\ IF botOk
       THEN /\ sent' = [sent EXCEPT ![p] =
                 Append(@, Sent("sendMessage", PROCESSING, <<>>))]
            /\ pc' = [pc EXCEPT ![p] = "generate"]
            /\ logged' = logged
       ELSE SummarizeCatch(p, BotError) /\ sent' = sent
  /\ UNCHANGED <<encryptionKey, file, msg, rd, rm, messages, pending,
                 appendThrew, hist, cx>>

MutAnalysisRethrow(p, entries, error) ==
  /\ logged' = [logged EXCEPT ![p] = @ \o entries \o
                  <<LogEntry("Error summarizing log:", error)>>]
  /\ pc' = [pc EXCEPT ![p] = "sendError"]

\* the inner catch block of summarizeCaptainLog: logs, then calls
\* bot.editMessageText with the raw log
AnalysisCatch(p, entries, error) ==
  /\ logged' = [logged EXCEPT ![p] = @ \o entries \o
                  <<LogEntry("Error in psychological analysis:", error)>>]
  /\ pc' = [pc EXCEPT ![p] = "editRawLog"]

\* AiSummaryService.generatePsychologicalSummary from the completion of
\* ollama.generate; its catch logs and throws a new Error
Generate(p, aiOk) ==
  /\ pc[p] = "generate"
  /\ Outcome(aiOk)
  /\ IF aiOk
       THEN pc' = [pc EXCEPT ![p] = "editSummary"] /\ logged' = logged
       ELSE AnalysisCatch(p,
              <<LogEntry("Error generating psychological summary:", AiError)>>,
              AiError)
  /\ UNCHANGED <<encryptionKey, file, msg, rd, rm, messages, pending,
                 appendThrew, sent, hist, cx>>

\* await this.bot.editMessageText(analysis), inside the inner try
EditSummary(p, botOk) ==
  /\ pc[p] = "editSummary"
  /\ Outcome(botOk)
  /\ IF botOk
       THEN /\ sent' = [sent EXCEPT ![p] =
                 Append(@, Sent("editMessageText", ANALYSIS, <<>>))]
            /\ pc' = [pc EXCEPT ![p] = "done"]
            /\ logged' = logged
       ELSE AnalysisCatch(p, <<>>, BotError) /\ sent' = sent
  /\ UNCHANGED <<encryptionKey, file, msg, rd, rm, messages, pending,
                 appendThrew, hist, cx>>

\* await this.bot.editMessageText(raw log), inside the inner catch
EditRawLog(p, botOk) ==
  /\ pc[p] = "editRawLog"
  /\ Outcome(botOk)
  /\ IF botOk
       THEN /\ sent' = [sent EXCEPT ![p] =
                 Append(@, Sent("editMessageText", RAW_LOG,
                                formatLogForAI(messages[p])))]
            /\ pc' = [pc EXCEPT ![p] = "done"]
            /\ logged' = logged
       ELSE SummarizeCatch(p, BotError) /\ sent' = sent
  /\ UNCHANGED <<encryptionKey, file, msg, rd, rm, messages, pending,
                 appendThrew, hist, cx>>

\* await this.bot.sendMessage(error text), inside the outer catch
SendError(p, botOk) ==
  /\ pc[p] = "sendError"
  /\ Outcome(botOk)
  /\ sent' = [sent EXCEPT ![p] =
       IF botOk THEN Append(@, Sent("sendMessage", REQUEST_ERROR, <<>>))
       ELSE @]
  /\ pc' = [pc EXCEPT ![p] = IF botOk THEN "done" ELSE "rejected"]
  /\ UNCHANGED <<encryptionKey, file, msg, rd, rm, messages, pending,
                 appendThrew, logged, hist, cx>>

Next ==
  \/ \E p \in Procs, m \in Messages : Receive(p, m)
  \/ \E p \in Procs, ioOk \in BOOLEAN, i \in IVs, rngOk \in BOOLEAN :
       AppendRead(p, ioOk, i, rngOk)
  \/ \E p \in Procs, ioOk \in BOOLEAN : WriteOpen(p, ioOk)
  \/ \E p \in Procs, ioOk \in BOOLEAN : WriteDone(p, ioOk)
  \/ \E p \in Procs, botOk \in BOOLEAN : Ack(p, botOk)
  \/ \E p \in Procs, botOk \in BOOLEAN : SendChatAction(p, botOk)
  \/ \E p \in Procs, ioOk \in BOOLEAN : SumRead(p, ioOk)
  \/ \E p \in Procs, botOk \in BOOLEAN : SendEmpty(p, botOk)
  \/ \E p \in Procs, botOk \in BOOLEAN : SendProcessing(p, botOk)
  \/ \E p \in Procs, aiOk \in BOOLEAN : Generate(p, aiOk)
  \/ \E p \in Procs, botOk \in BOOLEAN : EditSummary(p, botOk)
  \/ \E p \in Procs, botOk \in BOOLEAN : EditRawLog(p, botOk)
  \/ \E p \in Procs, botOk \in BOOLEAN : SendError(p, botOk)

Spec == Init /\ [][Next]_vars

(* ------------------- CryptoService called on its own ------------------- *)

\* longest raw plaintext tried; two cipher blocks and one byte
MaxTextLen == 33

RECURSIVE Chars(_)
\* a text of n characters
Chars(n) == IF n = 0 THEN "" ELSE Chars(n - 1) \o "x"

Plaintexts ==
  {RawText(Chars(n)) : n \in {0, 1, AES_BLOCK - 1, AES_BLOCK, AES_BLOCK + 1,
                              2 * AES_BLOCK, MaxTextLen}}
    \cup {RawText("not json"), JsonText(JNull), JSONstringify(<<>>),
          JSONstringify(PriorLog)}

\* IV segments: of 32 hex characters, shorter, longer, empty, and of 32
\* characters that are not all hex
IvSegs ==
  {IvSeg, EmptySeg, MkSeg(2 * IV_LENGTH - 2, IV_LENGTH - 1, JunkData(FALSE)),
   MkSeg(2 * IV_LENGTH + 2, IV_LENGTH + 1, JunkData(FALSE)),
   MkSeg(2 * IV_LENGTH - 1, IV_LENGTH - 1, JunkData(FALSE)),
   MkSeg(2 * IV_LENGTH, 0, JunkData(FALSE)),
   MkSeg(2 * IV_LENGTH, IV_LENGTH - 1, JunkData(FALSE))}

\* ciphertext segments: a ciphertext made with IvSeg's IV under either key,
\* nothing, an odd number of hex digits, bytes that are no ciphertext
EncSegs ==
  {StoredBlob(RawText("hello"), k)[2] : k \in Passphrases}
    \cup {EmptySeg, MkSeg(31, 15, JunkData(FALSE)),
          MkSeg(32, 16, JunkData(FALSE)), MkSeg(32, 16, JunkData(TRUE)),
          MkSeg(4, 0, JunkData(FALSE))}

\* strings handed to decrypt: without a colon, with one, with two
Blobs ==
  {<<a>> : a \in IvSegs \cup EncSegs}
    \cup {<<a, b>> : a \in IvSegs, b \in EncSegs}
    \cup {<<a, b, EmptySeg>> : a \in IvSegs, b \in EncSegs}

CxInit ==
  /\ encryptionKey \in Passphrases
  /\ file = AbsentFile
  /\ pc = [p \in Procs |-> "idle"]
  /\ msg = [p \in Procs |-> NoMsg]
  /\ rd = [p \in Procs |-> ThrowBlob(NoError)]
  /\ rm = [p \in Procs |-> ThrowRecords(NoError)]
  /\ messages = [p \in Procs |-> <<>>]
  /\ pending = [p \in Procs |-> <<EmptySeg>>]
  /\ appendThrew = [p \in Procs |-> FALSE]
  /\ logged = [p \in Procs |-> <<>>]
  /\ sent = [p \in Procs |-> <<>>]
  /\ hist = [file0 |-> file, overlapped |-> FALSE, faulted |-> FALSE,
             appended |-> <<>>, writes |-> <<>>, cut |-> FALSE,
             readAt |-> [p \in Procs |-> 0], iv |-> [p \in Procs |-> 0]]
  /\ faults = 0
  /\ cx = CxIdle

CxFrame ==
  UNCHANGED <<encryptionKey, file, pc, msg, rd, rm, messages, pending,
              appendThrew, logged, sent, hist, faults>>

\* a call encrypt(text)
CxEncrypt(text, i, rngOk) ==
  /\ cx.stage = "idle"
  /\ cx' = MkCx("encrypted", text, encrypt(text, encryptionKey, i, rngOk),
                ThrowText(NoError))
  /\ CxFrame

\* a call decrypt(blob) on what encrypt returned
CxDecrypt ==
  /\ cx.stage = "encrypted"
  /\ cx.blob.ok
  /\ cx' = MkCx("roundtrip", cx.text, cx.blob,
                decrypt(cx.blob.val, encryptionKey))
  /\ CxFrame

\* a call decrypt(blob) on any string
CxDecryptBlob(blob) ==
  /\ cx.stage = "idle"
  /\ cx' = MkCx("decrypted", RawText(""), Ok(blob),
                decrypt(blob, encryptionKey))
  /\ CxFrame

CxNext ==
  \/ \E text \in Plaintexts, i \in IVs, rngOk \in BOOLEAN :
       CxEncrypt(text, i, rngOk)
  \/ CxDecrypt
  \/ \E blob \in Blobs : CxDecryptBlob(blob)

CryptoSpec == CxInit /\ [][CxNext]_vars

(* ------------------------------ properties ----------------------------- *)

\* what a readMessages call made now, its read not failing, returns
ReadAll == readMessages(fsReadFile(file, TRUE), encryptionKey)

\* the invocation has got past the fs.readFile of its readMessages call
HasRead(p) ==
  pc[p] \in {"writeOpen", "writeDone", "ack", "sendEmpty", "sendProcessing",
             "generate", "editSummary", "editRawLog"}
    \/ (pc[p] \in {"done", "rejected", "sendError"} /\ rd[p].err # NoError)
    \/ (pc[p] \in {"done", "rejected", "sendError"} /\ rd[p].ok)

\* the invocation called appendMessage and the call is over
AppendOver(p) ==
  /\ pc[p] \in {"ack", "done", "rejected"}
  /\ ~IsSummarizeRequest(msg[p])

Wrote(p) == \E k \in 1..Len(hist.writes) : hist.writes[k] = p

WritePos(p) == CHOOSE k \in 1..Len(hist.writes) : hist.writes[k] = p

\* the file holds what p wrote: no write has completed or begun since
LastWriter(p) ==
  /\ hist.writes # <<>>
  /\ hist.writes[Len(hist.writes)] = p
  /\ ~hist.cut

HasLogged(p, text) == \E k \in 1..Len(logged[p]) : logged[p][k].text = text

\* the try block of the invocation's readEncryptedFile, on what it read
TryOf(p) == ReadTry(rd[p], encryptionKey)

\* C1: from an absent file, after appends that did not overlap and met no
\* failure of the file system or the random source, readMessages returns
\* the appended records, all of them, in call order; so does every
\* readMessages call of a summarize request since whose read nothing was
\* written
OrderPreserved ==
  (/\ ~hist.file0.exists
   /\ ~hist.overlapped
   /\ ~hist.faulted
   /\ \A p \in Procs : ~InAppend(p))
  => /\ ReadAll = Ok(hist.appended)
     /\ \A p \in Procs :
          (/\ IsSummarizeRequest(msg[p])
           /\ HasRead(p)
           /\ rd[p].err # EIO
           /\ hist.readAt[p] = Len(hist.writes))
          => rm[p] = Ok(hist.appended)

\* two appends of different records, one after the other, both read back
OrderPreservedWitness ==
  /\ ~hist.file0.exists /\ ~hist.overlapped /\ ~hist.faulted
  /\ \A p \in Procs : ~InAppend(p)
  /\ Len(hist.appended) = 2
  /\ hist.appended[1] # hist.appended[2]
  /\ ReadAll = Ok(hist.appended)

\* appends a and b both read the same log before either wrote, both
\* returned having written, and b's write is the last
Raced(a, b) ==
  /\ a # b
  /\ AppendOver(a) /\ AppendOver(b)
  /\ Wrote(a) /\ Wrote(b)
  /\ rm[a].ok /\ rm[a] = rm[b]
  /\ \A x \in {a, b} : hist.readAt[x] < WritePos(a) /\ hist.readAt[x] < WritePos(b)
  /\ LastWriter(b)

\* C2: whenever two appends a and b have both read the same prior log
\* before either wrote and both have written and returned, the persisted log
\* is the prior log plus the record of the one that wrote last, and nothing
\* else: the other record is not in it
LostUpdate ==
  \A a, b \in Procs :
    Raced(a, b) =>
      /\ ~appendThrew[a] /\ ~appendThrew[b]
      /\ ~HasLogged(a, "Error saving message to file:")
      /\ ~HasLogged(b, "Error saving message to file:")
      /\ ReadAll = Ok(push(rm[b].val, NewRecord(msg[b])))
      /\ Len(ReadAll.val) = Len(rm[a].val) + 1

\* such a race of two different records happens, and a's record is gone
LostUpdateWitness ==
  \E a, b \in Procs :
    /\ Raced(a, b)
    /\ NewRecord(msg[a]) # NewRecord(msg[b])
    /\ \A k \in 1..Len(ReadAll.val) : ReadAll.val[k] # NewRecord(msg[a])

\* the file the invocation read exists and cannot be read back: decrypt or
\* JSON.parse failed on its content
Unreadable(p) == rd[p].ok /\ ~TryOf(p).ok

\* the invocation's own encrypt or fs.writeFile failed
WriteFailed(p) == HasLogged(p, "Error writing encrypted file:")

\* C3: an append that finds the file unreadable never throws to its caller,
\* goes on to write the one-entry log of its own record unless its encrypt
\* or its file write fails, and once it has written (and nothing has been
\* written since) the persisted log is exactly that one record
OverwritesUnreadable ==
  \A p \in Procs :
    (~IsSummarizeRequest(msg[p]) /\ HasRead(p) /\ Unreadable(p)) =>
      /\ ~appendThrew[p]
      /\ messages[p] = <<NewRecord(msg[p])>>
      /\ pc[p] \in {"writeOpen", "writeDone"} \/ Wrote(p) \/ WriteFailed(p)
      /\ (Wrote(p) /\ LastWriter(p)) => ReadAll = Ok(<<NewRecord(msg[p])>>)

\* an append found a file that does not decrypt and replaced it
OverwritesUnreadableWitness ==
  \E p \in Procs :
    /\ AppendOver(p) /\ Unreadable(p) /\ Wrote(p) /\ LastWriter(p)
    /\ hist.file0.exists /\ rd[p].val = hist.file0.content
    /\ ReadAll = Ok(<<NewRecord(msg[p])>>)

\* C4: when the encrypt step or the file write of an append fails, the
\* append call throws to its caller
WriteFailurePropagates ==
  \A p \in Procs : (AppendOver(p) /\ WriteFailed(p)) => appendThrew[p]

\* C5: when the file exists and decrypt or JSON.parse fails on its content,
\* readMessages returns the empty array and throws nothing
ReadFailureDegrades ==
  \A p \in Procs : (HasRead(p) /\ Unreadable(p)) => rm[p] = Ok(<<>>)

\* a readMessages call met a padding failure and returned the empty array
ReadFailureDegradesWitness ==
  \E p \in Procs :
    /\ HasRead(p) /\ Unreadable(p)
    /\ TryOf(p).err = BadDecrypt
    /\ rm[p] = Ok(<<>>)

\* C6: readMessages on a path that does not exist returns the empty array,
\* throws nothing and logs no error; and as long as only readMessages calls
\* of summarize requests have run, the path stays absent
AbsentReadsEmpty ==
  /\ \A p \in Procs :
       (HasRead(p) /\ rd[p] = ThrowBlob(ENOENT)) =>
         /\ rm[p] = Ok(<<>>)
         /\ ~HasLogged(p, "Error reading encrypted file:")
  /\ (~hist.file0.exists /\ hist.appended = <<>>) => ~file.exists

\* a summarize request read the absent path, and the path is still absent
AbsentReadsEmptyWitness ==
  \E p \in Procs :
    /\ IsSummarizeRequest(msg[p]) /\ HasRead(p)
    /\ rd[p] = ThrowBlob(ENOENT) /\ rm[p] = Ok(<<>>)
    /\ ~file.exists

\* C7: every failure of readEncryptedFile other than file-not-found writes
\* an entry to the error log, and file-not-found writes none
ReadFailureLogged ==
  \A p \in Procs :
    (HasRead(p) /\ ~TryOf(p).ok) =>
      (HasLogged(p, "Error reading encrypted file:") <=> TryOf(p).err # ENOENT)

\* C8: decrypt returns the plaintext encrypt was given, for every plaintext,
\* key and IV
RoundTrip == cx.stage = "roundtrip" => cx.out = Ok(cx.text)

\* the empty string went through encrypt and decrypt
RoundTripWitness ==
  /\ cx.stage = "roundtrip"
  /\ cx.text = RawText("")
  /\ cx.out = Ok(RawText(""))

\* the string has no colon, or its IV segment is not 32 hex characters
BadFraming(blob) ==
  \/ Len(blob) = 1
  \/ blob[1].len # 2 * IV_LENGTH
  \/ blob[1].pairs # IV_LENGTH

\* C9: decrypt fails with the format error, and in no other way, on every
\* string without a colon or whose IV segment is not exactly 32 hex
\* characters
FormatRejection ==
  (cx.stage = "decrypted" /\ BadFraming(cx.blob.val))
    => cx.out = ThrowText(FormatError)

\* the log the invocation read is the empty log: no file, or a stored []
ReadEmptyLog(p) ==
  \/ rd[p] = ThrowBlob(ENOENT)
  \/ TryOf(p) = Ok(JArray(<<>>))

WriterBefore(p) == hist.writes[hist.readAt[p]]

\* the invocation is at, or has finished, a step of readMessages
Reading(p) == pc[p] \in {"sumRead", "appendRead"}

SummarizerFailed(p) ==
  HasLogged(p, "Error generating psychological summary:")

\* the last thing the bot sent for the invocation
LastSent(p) == sent[p][Len(sent[p])]

\* the edit that shows the records the invocation read as '[ISO] text'
\* lines in log order
RawLogOf(p) ==
  Sent("editMessageText", RAW_LOG,
       [i \in 1..Len(rm[p].val) |->
         [iso |-> toISOString(rm[p].val[i].date),
          text |-> rm[p].val[i].message]])

\* C12: once the summarizer has failed in a summarize request, the log read
\* was not empty and the handler is about to edit the processing message
\* into the raw log, or has done so as the last thing it sent; it ends
\* otherwise only if Telegram rejected that edit
RawLogFallback ==
  \A p \in Procs :
    SummarizerFailed(p) =>
      /\ rm[p].ok /\ Len(rm[p].val) > 0
      /\ \/ pc[p] = "editRawLog"
         \/ pc[p] = "done" /\ sent[p] # <<>> /\ LastSent(p) = RawLogOf(p)
         \/ /\ pc[p] \in {"sendError", "done", "rejected"}
            /\ \E k \in 1..Len(logged[p]) :
                 logged[p][k] = LogEntry("Error summarizing log:", BotError)

\* the summarizer failed over a log of two records and the user was shown
\* both lines, the earlier record first
RawLogFallbackWitness ==
  \E p \in Procs :
    /\ SummarizerFailed(p) /\ pc[p] = "done"
    /\ LastSent(p) = RawLogOf(p)
    /\ Len(LastSent(p).body) = 2
    /\ LastSent(p).body[1].text = "earlier entry"
    /\ LastSent(p).body[2].text = "hello"
    /\ ~HasLogged(p, "Error summarizing log:")

\* the invocation's append got a blob from encrypt
Produced(p) == hist.iv[p] # 0

ReadAllTotal ==
  \A p \in Procs : (HasRead(p) /\ rd[p].ok) => rm[p].ok

\* the record of the invocation's message is in the log the file holds
Persisted(p) ==
  /\ ReadAll.ok
  /\ \E k \in 1..Len(ReadAll.val) : ReadAll.val[k] = NewRecord(msg[p])

\* C15: in every step in which the bot sends the acknowledgement for a
\* message, that message's appendMessage call has returned and its record
\* is in the persisted log
AckMeansSaved ==
  [][\A p \in Procs :
       (sent'[p] # sent[p] /\ sent'[p][Len(sent'[p])].text = ACK) =>
         (AppendOver(p) /\ Persisted(p))]_vars

\* the message has a text that contains "summarize captain's log" in some
\* mix of upper and lower case
ContainsPhrase(m) ==
  /\ m.hasText
  /\ m.text \in {"summarize captain's log", "Summarize Captain's Log",
                 "Please SUMMARIZE captain's log!"}

SummarizePcs ==
  {"sendChatAction", "sumRead", "sendEmpty", "sendProcessing", "generate",
   "editSummary", "editRawLog", "sendError"}

\* how many of the writes completed so far the invocation made
WritesOf(p) == Cardinality({k \in 1..Len(hist.writes) : hist.writes[k] = p})

Acks(p) == Cardinality({k \in 1..Len(sent[p]) : sent[p][k].text = ACK})

\* C16: a message whose text contains the phrase goes down the summarize
\* path only: it is never appended, written or acknowledged; any other
\* message, one without text included, goes down the append path only: one
\* appendMessage call (at most one write), then the acknowledgement as the
\* only thing sent, which is missing at the end only if Telegram rejected
\* it; the appended records are those of the other messages, one each
SingleDispatch ==
  /\ \A p \in Procs :
       pc[p] # "idle" =>
         IF ContainsPhrase(msg[p])
           THEN /\ pc[p] \in SummarizePcs \cup {"done", "rejected"}
                /\ Acks(p) = 0
                /\ WritesOf(p) = 0 /\ ~Produced(p)
                /\ pending[p] = <<EmptySeg>>
                /\ ~HasLogged(p, "Error saving message to file:")
           ELSE /\ pc[p] \in AppendPcs \cup {"ack", "done", "rejected"}
                /\ WritesOf(p) <= 1
                /\ sent[p] = IF pc[p] = "done"
                               THEN <<Sent("sendMessage", ACK, <<>>)>>
                               ELSE <<>>
                /\ ~HasLogged(p, "Error summarizing log:")
                /\ pc[p] = "rejected" => faults > 0
  /\ Len(hist.appended) =
       Cardinality({p \in Procs : pc[p] # "idle" /\ ~ContainsPhrase(msg[p])})

\* a mixed-case summarize request was answered without being stored or
\* acknowledged, and a message without text was stored and acknowledged
SingleDispatchWitness ==
  \E p, q \in Procs :
    /\ msg[p].text = "Summarize Captain's Log" /\ pc[p] = "done"
    /\ sent[p] # <<>> /\ Acks(p) = 0 /\ WritesOf(p) = 0
    /\ ~msg[q].hasText /\ pc[q] = "done"
    /\ WritesOf(q) = 1 /\ Acks(q) = 1 /\ Len(sent[q]) = 1

\* the bot sent this text for the invocation
HasSent(p, text) == \E k \in 1..Len(sent[p]) : sent[p][k].text = text

\* the invocation is at or past its call of the summarizer
SummarizerCalled(p) ==
  \/ pc[p] \in {"generate", "editSummary", "editRawLog"}
  \/ HasLogged(p, "Error in psychological analysis:")
  \/ HasSent(p, ANALYSIS) \/ HasSent(p, RAW_LOG)

\* C17: a summarize request whose readMessages returned the empty array
\* goes on to send "Captain's log is empty." and nothing else (the generic
\* error only if Telegram rejected that send), never sends the processing
\* message and never calls the summarizer; the summarizer is called only
\* after a read that returned at least one record
EmptyLogShortCircuit ==
  \A p \in Procs :
    /\ (ContainsPhrase(msg[p]) /\ HasRead(p) /\ rm[p] = Ok(<<>>)) =>
         /\ \/ pc[p] = "sendEmpty" /\ sent[p] = <<>>
            \/ pc[p] = "done" /\ sent[p] = <<Sent("sendMessage", LOG_EMPTY, <<>>)>>
            \/ /\ pc[p] \in {"sendError", "done", "rejected"}
               /\ ~HasSent(p, LOG_EMPTY)
               /\ logged[p][Len(logged[p])] =
                    LogEntry("Error summarizing log:", BotError)
         /\ ~HasSent(p, PROCESSING)
         /\ ~SummarizerCalled(p)
    /\ SummarizerCalled(p) =>
         /\ rm[p].ok /\ Len(rm[p].val) > 0
         /\ Len(formatLogForAI(messages[p])) > 0
         /\ HasSent(p, PROCESSING)

\* a summarize request over a file that exists and does not decrypt told
\* the user the log is empty, and nothing else
EmptyLogShortCircuitWitness ==
  \E p \in Procs :
    /\ ContainsPhrase(msg[p]) /\ HasRead(p)
    /\ Unreadable(p) /\ rm[p] = Ok(<<>>)
    /\ pc[p] = "done"
    /\ sent[p] = <<Sent("sendMessage", LOG_EMPTY, <<>>)>>

====
